---- MODULE Spec2Model ----
(***************************************************************************)
(* The authenticated notes service of todo-api (src/main.go, the program   *)
(* that registers /register, /login, /logout, /check-auth, /notes and      *)
(* /notes/{id}).  The state is the content of the two tables the program   *)
(* creates (users, notes) with their AUTO_INCREMENT counters, together     *)
(* with the request being answered, the response written for it, what the  *)
(* auth gate did with it and the number of SQL statements it ran.  Each    *)
(* handler action is one HTTP request served from start to finish (the     *)
(* auth gate and the wrapped handler are one step); Return is the server   *)
(* finishing with the request, after which it serves the next one.         *)
(*                                                                         *)
(* Text the program inspects character by character (cookie values, the    *)
(* id segment of the path, titles) is a sequence of one-character strings, *)
(* so that strconv.Atoi, strconv.Itoa and strings.TrimSpace are computed.  *)
(* Text the program only stores and compares (usernames, passwords,        *)
(* contents) is an atomic string.                                          *)
(*                                                                         *)
(* The module also holds the in-memory todo service of the same file (the  *)
(* program that registers /todos and /todos/): its slice todos, its        *)
(* counter nextID and its mutex mu, with one goroutine per request being   *)
(* served.  There every statement that touches shared state is a step of   *)
(* its own, so that requests interleave as goroutines do.  Each            *)
(* specification runs one of the two services and leaves the state of the  *)
(* other as it starts.                                                     *)
(***************************************************************************)
EXTENDS Integers, Sequences, FiniteSets

VARIABLES users, usersAutoInc, notes, notesAutoInc, req, resp, gate, stmts,
          deleted, jar, fault,
          todos, nextID, mu, pc, loc, issued, removed

\* The state of the notes service and the history kept about it.
notesVars == <<users, usersAutoInc, notes, notesAutoInc, req, resp, gate,
               stmts, deleted, jar, fault>>

\* The state of the in-memory todo service and the history kept about it.
todoVars == <<todos, nextID, mu, pc, loc, issued, removed>>

vars == <<notesVars, todoVars>>

\* ------------------------------------------------------------ bounds

\* AUTO_INCREMENT values the users table hands out in a run.
MaxUserId == 2
\* AUTO_INCREMENT values the notes table hands out in a run.
MaxNoteId == 2
\* Requests the in-memory todo service serves at the same time.
NumGos == 2
\* Ids the in-memory todo service hands out in a run.
MaxTodoId == 2

\* ------------------------------------------------------------ values

\* A request without a session_token cookie, and one with it.
NoCookie == [present |-> FALSE, value |-> <<>>]
Cookie(v) == [present |-> TRUE, value |-> v]

Digits == <<"0", "1", "2", "3", "4", "5", "6", "7", "8", "9">>
DigitSet == {Digits[i] : i \in 1..10}
WhiteSpace == {" ", "\t", "\n", "\r"}

\* ------------------------------------------------------------ strconv

DigitVal(c) == (CHOOSE i \in 1..10 : Digits[i] = c) - 1

\* The text after an optional sign.
Unsigned(s) == IF Len(s) > 0 /\ s[1] \in {"+", "-"} THEN Tail(s) ELSE s

\* strconv.Atoi returns no error: an optional sign and at least one digit,
\* nothing else.
AtoiOk(s) ==
    /\ Len(Unsigned(s)) > 0
    /\ \A i \in 1..Len(Unsigned(s)) : Unsigned(s)[i] \in DigitSet

RECURSIVE DigitsVal(_)
DigitsVal(s) ==
    IF s = <<>> THEN 0
    ELSE 10 * DigitsVal(SubSeq(s, 1, Len(s) - 1)) + DigitVal(s[Len(s)])

\* strconv.Atoi's value, where AtoiOk.
Atoi(s) ==
    IF Len(s) > 0 /\ s[1] = "-" THEN 0 - DigitsVal(Unsigned(s))
    ELSE DigitsVal(Unsigned(s))

RECURSIVE NatDigits(_)
NatDigits(n) ==
    IF n < 10 THEN <<Digits[n + 1]>>
    ELSE NatDigits(n \div 10) \o <<Digits[(n % 10) + 1]>>

\* strconv.Itoa
Itoa(n) == IF n < 0 THEN <<"-">> \o NatDigits(0 - n) ELSE NatDigits(n)

\* ------------------------------------------------------------ strings

RECURSIVE TrimLeft(_)
TrimLeft(s) ==
    IF s # <<>> /\ s[1] \in WhiteSpace THEN TrimLeft(Tail(s)) ELSE s

RECURSIVE TrimRight(_)
TrimRight(s) ==
    IF s # <<>> /\ s[Len(s)] \in WhiteSpace
    THEN TrimRight(SubSeq(s, 1, Len(s) - 1)) ELSE s

\* Mutant: strings.TrimLeft in place of strings.TrimSpace.
TrimSpaceLeftOnly(s) == TrimLeft(s)

\* Mutant: the title taken as sent.
TrimSpaceNone(s) == s

\* strings.TrimSpace
TrimSpace(s) == TrimRight(TrimLeft(s))

\* ------------------------------------------------------------ inputs

\* Each request draws its inputs from small sets.  The notes
\* specification (Spec) is rich in notes requests and registers users with
\* one password; the credentials specification (SpecAuth) is rich in
\* /register and /login requests and poor in notes requests.

LongPassword == "a password longer than bcrypt accepts"
NoCreds == [json |-> TRUE, username |-> "", password |-> ""]
NoBody == [json |-> TRUE, title |-> <<>>, content |-> ""]

\* The method and JSON body of a /register or /login request: another
\* method, a body that does not decode, or the decoded fields (an absent
\* field decodes to "").
CredRequests(usernames, passwords) ==
    {[method |-> "GET", creds |-> NoCreds],
     [method |-> "POST", creds |-> [NoCreds EXCEPT !.json = FALSE]]}
    \cup {[method |-> "POST",
           creds |-> [json |-> TRUE, username |-> u, password |-> p]] :
           u \in usernames, p \in passwords}

\* The JSON body of a notes request: one that does not decode, or the
\* decoded fields.
NoteBodies(titles, contents) ==
    {[NoBody EXCEPT !.json = FALSE]}
    \cup [json : {TRUE}, title : titles, content : contents]

\* The session_token cookies that carry a user id (one that is registered,
\* or not, when the request arrives).
IdCookies == {Cookie(Itoa(i)) : i \in 1..MaxUserId}

\* The paths after "/notes/" that name a note id (stored, or not).
IdPaths == {Itoa(i) : i \in 1..MaxNoteId}

Cookies == IdCookies \cup {NoCookie}
Paths == IdPaths \cup {Itoa(0), <<"-", "1">>, <<"a">>}
Creds == CredRequests({"alice", "bob"}, {"pw1"})
Bodies == NoteBodies({<<>>, <<" ">>, <<"a">>, <<" ", "b", " ">>}, {"", "c"})

AuthCreds == CredRequests({"", "alice", "bob"}, {"pw1", "pw2", LongPassword})
AuthCookies ==
    IdCookies \cup {NoCookie, Cookie(<<>>), Cookie(<<"a">>),
                    Cookie(<<"+", "1">>), Cookie(<<"1", "a">>)}
AuthPaths == {Itoa(1), <<>>, <<"+", "1">>, <<"1", "a">>}
AuthBodies == NoteBodies({<<"a">>}, {"c"})
SessionCreds == CredRequests({"alice", "bob"}, {"pw1", "pw2"})

\* ------------------------------------------------------------ bcrypt

\* bcrypt.GenerateFromPassword fails on a password of more than 72 bytes.
GenerateFromPasswordOk(password) == password # LongPassword

\* The stored hash.  The random salt is left out: it changes the text of the
\* hash, never the outcome of CompareHashAndPassword.
GenerateFromPassword(password) == [alg |-> "bcrypt", of |-> password]

\* Mutant: the result of the comparison dropped.
CompareHashAndPasswordAlways(hash, password) == TRUE

\* bcrypt.CompareHashAndPassword returns nil.
CompareHashAndPassword(hash, password) == hash.of = password

\* ------------------------------------------------------------ storage

\* The DSN of sql.Open carries no clientFoundRows=true, so RowsAffected of
\* an UPDATE counts the rows the statement changed, not the rows it matched.
clientFoundRows == FALSE

UserIds == {u.id : u \in users}

\* INSERT INTO users: username is UNIQUE.  Usernames are compared as the
\* strings they are; the inputs hold no two usernames that a collation of
\* the server could make equal.
InsertUserOk(username) == \A u \in users : u.username # username

\* SELECT id, password FROM users WHERE username = ?
UsersByName(username) == {u \in users : u.username = username}

\* Mutant: the notes table without its FOREIGN KEY.
InsertNoteOkNoForeignKey(userID) == TRUE

\* INSERT INTO notes: user_id REFERENCES users(id).
InsertNoteOk(userID) == userID \in UserIds

\* Mutant: the WHERE clause without the owner.
NoteWhereAnyOwner(n, id, userID) == n.id = id

\* WHERE id = ? AND user_id = ?   (UPDATE and DELETE)
NoteWhere(n, id, userID) == n.id = id /\ n.user_id = userID

\* WHERE user_id = ?   (SELECT)
ListWhere(n, userID) == n.user_id = userID

\* The rows of a set of notes, ORDER BY id DESC.
RECURSIVE OrderByIdDesc(_)
OrderByIdDesc(rows) ==
    IF rows = {} THEN <<>>
    ELSE LET top == CHOOSE n \in rows : \A m \in rows : m.id <= n.id
         IN  <<top>> \o OrderByIdDesc(rows \ {top})

\* An UPDATE's RowsAffected over the matched rows.
UpdateRowsAffected(matched, title, content) ==
    IF clientFoundRows THEN Cardinality(matched)
    ELSE Cardinality({n \in matched : n.title # title \/ n.content # content})

\* ------------------------------------------------------------ responses

NoNote == [id |-> 0, user_id |-> 0, title |-> <<>>, content |-> ""]
NoSetCookie == [set |-> FALSE, value |-> <<>>, hours |-> 0, httpOnly |-> FALSE]

\* A response: the status, the text of an http.Error body, and what
\* json.Encode wrote: nothing ("none"), a Note ("object"), a slice of Notes
\* ("array") or the nil slice ("null").
Response(status, text, json, note, list, cookie) ==
    [status |-> status, text |-> text, json |-> json, note |-> note,
     list |-> list, cookie |-> cookie]

\* http.Error
Error(text, status) == Response(status, text, "none", NoNote, <<>>, NoSetCookie)

\* w.WriteHeader alone
Status(status) == Response(status, "", "none", NoNote, <<>>, NoSetCookie)

\* What the auth gate did with a request: whether it invoked the wrapped
\* handler, and the user id it put in the request's context.
NoGate == [invoked |-> 0, userID |-> 0]

Request(op, method, cookie, path, body, creds) ==
    [op |-> op, method |-> method, cookie |-> cookie, path |-> path,
     body |-> body, creds |-> creds]

\* ------------------------------------------------------------ auth gate

\* Mutant: the error of strconv.Atoi dropped (userID, _ := ...), so that an
\* unparseable cookie passes as user 0.
authMiddlewareIgnoringErr(cookie) ==
    IF ~cookie.present
    THEN [pass |-> FALSE, resp |-> Error("unauthorized", 401), userID |-> 0]
    ELSE [pass |-> TRUE, resp |-> Status(200),
          userID |-> IF AtoiOk(cookie.value) THEN Atoi(cookie.value) ELSE 0]

\* authMiddleware up to the call of next: whether next is called, the
\* response written when it is not, and the user id put in the context.
authMiddleware(cookie) ==
    IF ~cookie.present
    THEN [pass |-> FALSE, resp |-> Error("unauthorized", 401), userID |-> 0]
    ELSE IF ~AtoiOk(cookie.value)
    THEN [pass |-> FALSE, resp |-> Error("invalid session", 401), userID |-> 0]
    ELSE [pass |-> TRUE, resp |-> Status(200), userID |-> Atoi(cookie.value)]

\* ------------------------------------------------------------ credentials

\* What a handler leaves behind: its response, the table it writes with
\* that table's AUTO_INCREMENT counter, and the number of SQL statements it
\* ran (db.Exec, db.Query, db.QueryRow).
Outcome(r, rows, autoInc, n) ==
    [resp |-> r, rows |-> rows, autoInc |-> autoInc, stmts |-> n]

\* A handler that returns before it reaches the database.
Rejected(r, rows, autoInc) == Outcome(r, rows, autoInc, 0)

\* A failed INSERT may or may not have consumed an AUTO_INCREMENT value
\* (the storage engine decides); burn is that choice.  The actions stop
\* inserting once a counter has passed MaxUserId or MaxNoteId.
AfterFailedInsert(autoInc, burn) == IF burn THEN autoInc + 1 ELSE autoInc

\* db.Exec of the INSERT into users returns an error: the username is
\* taken, or the statement failed for another reason (the connection to
\* MySQL is lost, the server is out of space, ...), which is failure.
InsertUserErr(username, failure) == failure \/ ~InsertUserOk(username)

registerHandler(method, creds, burn, failure) ==
    IF method # "POST"
    THEN Rejected(Error("method not allowed", 405), users, usersAutoInc)
    ELSE IF ~creds.json
    THEN Rejected(Error("invalid JSON", 400), users, usersAutoInc)
    ELSE IF ~GenerateFromPasswordOk(creds.password)
    THEN Rejected(Error("server error", 500), users, usersAutoInc)
    ELSE IF InsertUserErr(creds.username, failure)
    THEN Outcome(Error("username already taken", 409), users,
                 AfterFailedInsert(usersAutoInc, burn), 1)
    ELSE Outcome(Status(201),
                 users \cup {[id |-> usersAutoInc,
                              username |-> creds.username,
                              password |-> GenerateFromPassword(creds.password)]},
                 usersAutoInc + 1, 1)

\* The cookie loginHandler sets.
SessionCookie(id) ==
    [set |-> TRUE, value |-> Itoa(id), hours |-> 24, httpOnly |-> TRUE]

loginHandler(method, creds) ==
    IF method # "POST"
    THEN Rejected(Error("method not allowed", 405), users, usersAutoInc)
    ELSE IF ~creds.json
    THEN Rejected(Error("invalid JSON", 400), users, usersAutoInc)
    ELSE IF UsersByName(creds.username) = {}
    THEN Outcome(Error("invalid credentials", 401), users, usersAutoInc, 1)
    ELSE LET u == CHOOSE x \in UsersByName(creds.username) : TRUE
         IN  IF ~CompareHashAndPassword(u.password, creds.password)
             THEN Outcome(Error("invalid credentials", 401),
                          users, usersAutoInc, 1)
             ELSE Outcome(Response(200, "", "none", NoNote, <<>>,
                                   SessionCookie(u.id)),
                          users, usersAutoInc, 1)

logoutHandler ==
    Response(200, "", "none", NoNote, <<>>,
             [set |-> TRUE, value |-> <<>>, hours |-> -1, httpOnly |-> TRUE])

\* Mutant: the error of strconv.Atoi dropped, so that every cookie that is
\* present passes.
checkAuthHandlerIgnoringErr(cookie) ==
    IF ~cookie.present THEN Status(401) ELSE Status(200)

checkAuthHandler(cookie) ==
    IF ~cookie.present THEN Status(401)
    ELSE IF ~AtoiOk(cookie.value) THEN Status(401)
    ELSE Status(200)

\* ------------------------------------------------------------ notes

getNotesHandler(userID) ==
    LET rows == OrderByIdDesc({n \in notes : ListWhere(n, userID)})
    IN  Outcome(Response(200, "", IF rows = <<>> THEN "null" ELSE "array",
                         NoNote, rows, NoSetCookie),
                notes, notesAutoInc, 1)

\* Mutant: the id of a new row is the lowest id no stored row has, so that
\* the id of a deleted row is handed out again.
LastInsertIdLowestFree ==
    CHOOSE i \in 1..notesAutoInc :
        /\ \A n \in notes : n.id # i
        /\ \A j \in 1..(i - 1) : \E n \in notes : n.id = j

\* res.LastInsertId() of the INSERT into notes: the value the AUTO_INCREMENT
\* counter of the id column holds when the row is inserted.
LastInsertId == notesAutoInc

createNoteHandler(userID, body, burn) ==
    LET title == TrimSpace(body.title)
        note == [id |-> LastInsertId, user_id |-> userID,
                 title |-> title, content |-> body.content]
    IN  IF ~body.json
        THEN Rejected(Error("invalid JSON", 400), notes, notesAutoInc)
        ELSE IF title = <<>>
        THEN Rejected(Error("title is required", 400), notes, notesAutoInc)
        ELSE IF ~InsertNoteOk(userID)
        THEN Outcome(Error("db error", 500), notes,
                     AfterFailedInsert(notesAutoInc, burn), 1)
        ELSE Outcome(Response(201, "", "object", note, <<>>, NoSetCookie),
                     notes \cup {note}, notesAutoInc + 1, 1)

\* Mutant: the id check as id < 0.
ValidIdNonNegative(path) == AtoiOk(path) /\ Atoi(path) >= 0

\* The id of the path passes: strconv.Atoi returns no error and id > 0.
ValidId(path) == AtoiOk(path) /\ Atoi(path) > 0

\* The rows after UPDATE notes SET title = ?, content = ? WHERE ...
UpdateNotes(id, userID, title, content) ==
    {IF NoteWhere(n, id, userID)
     THEN [n EXCEPT !.title = title, !.content = content]
     ELSE n : n \in notes}

updateNoteHandler(userID, path, body) ==
    LET id == Atoi(path)
        title == TrimSpace(body.title)
        matched == {n \in notes : NoteWhere(n, id, userID)}
        note == [id |-> id, user_id |-> userID,
                 title |-> title, content |-> body.content]
    IN  IF ~ValidId(path)
        THEN Rejected(Error("invalid id", 400), notes, notesAutoInc)
        ELSE IF ~body.json
        THEN Rejected(Error("invalid JSON", 400), notes, notesAutoInc)
        ELSE IF title = <<>>
        THEN Rejected(Error("title is required", 400), notes, notesAutoInc)
        ELSE IF UpdateRowsAffected(matched, title, body.content) = 0
        THEN Outcome(Error("note not found or unauthorized", 404),
                     UpdateNotes(id, userID, title, body.content),
                     notesAutoInc, 1)
        ELSE Outcome(Response(200, "", "object", note, <<>>, NoSetCookie),
                     UpdateNotes(id, userID, title, body.content),
                     notesAutoInc, 1)

\* The rows after DELETE FROM notes WHERE ...
DeleteNotes(id, userID) == {n \in notes : ~NoteWhere(n, id, userID)}

deleteNoteHandler(userID, path) ==
    LET id == Atoi(path)
    IN  IF ~ValidId(path)
        THEN Rejected(Error("invalid id", 400), notes, notesAutoInc)
        ELSE IF DeleteNotes(id, userID) = notes
        THEN Outcome(Error("note not found or unauthorized", 404),
                     notes, notesAutoInc, 1)
        ELSE Outcome(Status(204), DeleteNotes(id, userID), notesAutoInc, 1)

\* ------------------------------------------------------------ todos

\* The goroutines net/http serves requests on.
Gos == 1..NumGos

NoTodo == [id |-> 0, title |-> <<>>, done |-> FALSE]

\* The local variables of a handler: id, body.Title, body.Done, index, todo,
\* and the response it has written: its status and, for GET /todos, the
\* ids of the list it encoded.
NoLocal ==
    [id |-> 0, title |-> <<>>, done |-> FALSE, index |-> -1, todo |-> NoTodo,
     list |-> <<>>, status |-> 0]

\* var ( todos = []Todo{}; nextID = 1; mu sync.Mutex ), no request being
\* served.  issued and removed are history: the ids appended and the ids
\* deleted so far.
TodoInit ==
    /\ todos = <<>>
    /\ nextID = 1
    /\ mu = 0
    /\ pc = [g \in Gos |-> "idle"]
    /\ loc = [g \in Gos |-> NoLocal]
    /\ issued = {}
    /\ removed = {}

\* ------------------------------------------------------------ requests

Init ==
    /\ users = {}
    /\ usersAutoInc = 1
    /\ notes = {}
    /\ notesAutoInc = 1
    /\ req = Request("none", "GET", NoCookie, <<>>, NoBody, NoCreds)
    /\ resp = Status(0)
    /\ gate = NoGate
    /\ stmts = 0
    /\ deleted = {}
    /\ jar = [cookie |-> NoCookie, by |-> "none"]
    /\ fault = FALSE
    /\ TodoInit

\* The server is between two requests.
Idle == req.op = "none"

\* The handler has returned: the request and its response are gone, the
\* server waits for the next request.
Return ==
    /\ ~Idle
    /\ req' = Request("none", "GET", NoCookie, <<>>, NoBody, NoCreds)
    /\ resp' = Status(0)
    /\ gate' = NoGate
    /\ stmts' = 0
    /\ fault' = FALSE
    /\ UNCHANGED <<users, usersAutoInc, notes, notesAutoInc, deleted, jar>>
    /\ UNCHANGED todoVars

\* POST /register.  failures are the ways the storage may behave while the
\* request is served: FALSE, it works; TRUE, it fails the request's
\* statement.  fault records that a statement ran and the storage failed it.
Register(requests, failures) ==
    \E r \in requests, burn \in BOOLEAN, failure \in failures :
        LET out == registerHandler(r.method, r.creds, burn, failure)
        IN  /\ Idle
            /\ fault' = (failure /\ out.stmts > 0)
            /\ out.autoInc <= MaxUserId + 1
            /\ req' = Request("register", r.method, NoCookie, <<>>, NoBody,
                              r.creds)
            /\ resp' = out.resp
            /\ users' = out.rows
            /\ usersAutoInc' = out.autoInc
            /\ stmts' = out.stmts
            /\ gate' = NoGate
            /\ UNCHANGED <<notes, notesAutoInc, deleted, jar>>
            /\ UNCHANGED todoVars

\* The session_token cookie of a client after a response: a response that
\* sets no cookie leaves it alone, an unexpired cookie is stored, and an
\* expired one is discarded by a client that honours Expires and stored with
\* its value by one that does not.  by tells which handler's cookie the
\* client applied last.
ApplySetCookie(j, c, by, honoursExpires) ==
    IF ~c.set THEN j
    ELSE IF c.hours <= 0 /\ honoursExpires
    THEN [cookie |-> NoCookie, by |-> by]
    ELSE [cookie |-> Cookie(c.value), by |-> by]

\* Who sends a login or a logout: the client whose cookie jar is followed,
\* or any other client.
Browser == {"browser"}
Others == {"other"}

\* POST /login
Login(requests, clients) ==
    \E r \in requests, client \in clients, honoursExpires \in BOOLEAN :
        /\ Idle
        /\ req' = Request("login", r.method, NoCookie, <<>>, NoBody, r.creds)
        /\ resp' = loginHandler(r.method, r.creds).resp
        /\ stmts' = loginHandler(r.method, r.creds).stmts
        /\ gate' = NoGate
        /\ jar' = IF client \in Browser
                  THEN ApplySetCookie(jar, resp'.cookie, "login", honoursExpires)
                  ELSE jar
        /\ UNCHANGED <<users, usersAutoInc, notes, notesAutoInc, deleted,
                       fault>>
        /\ UNCHANGED todoVars

\* /logout, which every method reaches
Logout(methods, clients) ==
    \E method \in methods, client \in clients, honoursExpires \in BOOLEAN :
        /\ Idle
        /\ req' = Request("logout", method, NoCookie, <<>>, NoBody, NoCreds)
        /\ resp' = logoutHandler
        /\ stmts' = 0
        /\ gate' = NoGate
        /\ jar' = IF client \in Browser
                  THEN ApplySetCookie(jar, resp'.cookie, "logout", honoursExpires)
                  ELSE jar
        /\ UNCHANGED <<users, usersAutoInc, notes, notesAutoInc, deleted,
                       fault>>
        /\ UNCHANGED todoVars

\* /check-auth
CheckAuth(cookies) ==
    \E cookie \in cookies :
        /\ Idle
        /\ req' = Request("check-auth", "GET", cookie, <<>>, NoBody, NoCreds)
        /\ resp' = checkAuthHandler(cookie)
        /\ stmts' = 0
        /\ gate' = NoGate
        /\ UNCHANGED <<users, usersAutoInc, notes, notesAutoInc, deleted, jar,
                       fault>>
        /\ UNCHANGED todoVars

\* The ids of the rows of before whose id no row of after has: what a
\* DELETE statement removed.
Gone(before, after) ==
    {n.id : n \in {m \in before : \A k \in after : k.id # m.id}}

\* A request to a protected route: authMiddleware, then (when it passes) the
\* handler, whose outcome is out.
Protected(r, auth, out) ==
    /\ Idle
    /\ req' = r
    /\ IF auth.pass
       THEN /\ out.autoInc <= MaxNoteId + 1
            /\ resp' = out.resp
            /\ notes' = out.rows
            /\ notesAutoInc' = out.autoInc
            /\ stmts' = out.stmts
            /\ gate' = [invoked |-> 1, userID |-> auth.userID]
            /\ deleted' = deleted \cup Gone(notes, out.rows)
       ELSE /\ resp' = auth.resp
            /\ stmts' = 0
            /\ gate' = NoGate
            /\ UNCHANGED <<notes, notesAutoInc, deleted>>
    /\ UNCHANGED <<users, usersAutoInc, jar, fault>>
    /\ UNCHANGED todoVars

\* GET /notes
GetNotes(cookies) ==
    \E cookie \in cookies :
        LET auth == authMiddleware(cookie)
        IN  Protected(Request("list", "GET", cookie, <<>>, NoBody, NoCreds),
                      auth, getNotesHandler(auth.userID))

\* POST /notes
PostNotes(cookies, bodies) ==
    \E cookie \in cookies, body \in bodies, burn \in BOOLEAN :
        LET auth == authMiddleware(cookie)
        IN  Protected(Request("create", "POST", cookie, <<>>, body, NoCreds),
                      auth, createNoteHandler(auth.userID, body, burn))

\* PUT /notes/{id}
PutNote(cookies, paths, bodies) ==
    \E cookie \in cookies, path \in paths, body \in bodies :
        LET auth == authMiddleware(cookie)
        IN  Protected(Request("update", "PUT", cookie, path, body, NoCreds),
                      auth, updateNoteHandler(auth.userID, path, body))

\* DELETE /notes/{id}
DeleteNote(cookies, paths) ==
    \E cookie \in cookies, path \in paths :
        LET auth == authMiddleware(cookie)
        IN  Protected(Request("delete", "DELETE", cookie, path, NoBody, NoCreds),
                      auth, deleteNoteHandler(auth.userID, path))

\* The notes service under notes-rich inputs.
Next ==
    \/ Register(Creds, {FALSE})
    \/ Login(Creds, Others)
    \/ Logout({"POST"}, Others)
    \/ CheckAuth(Cookies)
    \/ GetNotes(Cookies)
    \/ PostNotes(Cookies, Bodies)
    \/ PutNote(Cookies, Paths, Bodies)
    \/ DeleteNote(Cookies, Paths)
    \/ Return

Spec == Init /\ [][Next]_vars

\* The notes service under credentials-rich inputs.
NextAuth ==
    \/ Register(AuthCreds, BOOLEAN)
    \/ Login(AuthCreds, Others)
    \/ Logout({"POST"}, Others)
    \/ CheckAuth(AuthCookies)
    \/ GetNotes(AuthCookies)
    \/ PostNotes(AuthCookies, AuthBodies)
    \/ PutNote(AuthCookies, AuthPaths, AuthBodies)
    \/ DeleteNote(AuthCookies, AuthPaths)
    \/ Return

SpecAuth == Init /\ [][NextAuth]_vars

\* The notes service used by one client, which sends with every request the
\* session_token cookie its jar holds.
NextSession ==
    \/ Register(SessionCreds, {FALSE})
    \/ Login(SessionCreds, Browser)
    \/ Logout({"GET", "POST"}, Browser)
    \/ CheckAuth({jar.cookie})
    \/ GetNotes({jar.cookie})
    \/ PostNotes({jar.cookie}, AuthBodies)
    \/ PutNote({jar.cookie}, AuthPaths, AuthBodies)
    \/ DeleteNote({jar.cookie}, AuthPaths)
    \/ Return

SpecSession == Init /\ [][NextSession]_vars

\* ------------------------------------------------------------ todo requests

\* The decoded body of a todo request, or one that does not decode.
TodoBody(title, done) == [json |-> TRUE, title |-> title, done |-> done]
NoTodoBody == [json |-> FALSE, title |-> <<>>, done |-> FALSE]

CreateBodies == {NoTodoBody, TodoBody(<<" ">>, FALSE), TodoBody(<<"a">>, FALSE)}
UpdateBodies == {NoTodoBody, TodoBody(<<" ">>, FALSE), TodoBody(<<"b">>, TRUE)}
TodoPaths == {Itoa(i) : i \in 1..MaxTodoId} \cup {Itoa(0)}

\* Mutant: a Lock that does not wait for the mutex to be free.
LockNoWait(g) == mu' = g

\* mu.Lock(): returns once no goroutine holds mu, and g holds it then.
Lock(g) == mu = 0 /\ mu' = g

\* mu.Unlock()
Unlock(g) == mu' = 0

\* Goroutine g goes on at label with the locals l.
Goto(g, label, l) ==
    /\ pc' = [pc EXCEPT ![g] = label]
    /\ loc' = [loc EXCEPT ![g] = l]

\* The handler of goroutine g returns, having written a response of the
\* given status with the given todo or list of ids as body.
Respond(g, status, todo, list) ==
    Goto(g, "done",
         [NoLocal EXCEPT !.status = status, !.todo = todo, !.list = list])

\* The least index of a todo of the slice s with the given id, -1 if there
\* is none (indices count from 1 here, from 0 in the program).
IndexOf(s, id) ==
    IF \E i \in 1..Len(s) : s[i].id = id
    THEN CHOOSE i \in 1..Len(s) :
             s[i].id = id /\ \A j \in 1..(i - 1) : s[j].id # id
    ELSE -1

\* The elements of the slice s once append(s[:index], s[index+1:]...) has
\* copied s[index+1:] down by one place within the array of s, as the slice
\* s still shows them: the last element is there twice.
CopyDown(s, index) ==
    [i \in 1..Len(s) |-> IF i < index \/ i = Len(s) THEN s[i] ELSE s[i + 1]]

\* GET /todos: todosHandler calls getTodosHandler.
GetTodos(g) ==
    /\ pc[g] = "idle"
    /\ Goto(g, "g_read", NoLocal)
    /\ UNCHANGED <<todos, nextID, mu, issued, removed>>
    /\ UNCHANGED notesVars

\* The ids of the todos of the slice s, in slice order.
Ids(s) == [i \in 1..Len(s) |-> s[i].id]

\* json.NewEncoder(w).Encode(todos): the slice is read as it is at this
\* moment, whoever holds mu.  Of the list written, the ids are kept.
GetEncode(g) ==
    /\ pc[g] = "g_read"
    /\ Respond(g, 200, NoTodo, Ids(todos))
    /\ UNCHANGED <<todos, nextID, mu, issued, removed>>
    /\ UNCHANGED notesVars

\* POST /todos: createTodoHandler up to mu.Lock().
CreateTodo(g, bodies) ==
    \E body \in bodies :
        /\ pc[g] = "idle"
        /\ IF ~body.json \/ TrimSpace(body.title) = <<>>
           THEN Respond(g, 400, NoTodo, <<>>)
           ELSE Goto(g, "c_lock", [NoLocal EXCEPT !.title = body.title])
        /\ UNCHANGED <<todos, nextID, mu, issued, removed>>
        /\ UNCHANGED notesVars

\* mu.Lock() of createTodoHandler.  The service hands out at most MaxTodoId
\* ids in a run.
CreateLock(g) ==
    /\ pc[g] = "c_lock"
    /\ nextID <= MaxTodoId
    /\ Lock(g)
    /\ Goto(g, "c_new", loc[g])
    /\ UNCHANGED <<todos, nextID, issued, removed>>
    /\ UNCHANGED notesVars

\* todo := Todo{ID: nextID, Title: body.Title, Done: false}
CreateNew(g) ==
    /\ pc[g] = "c_new"
    /\ Goto(g, "c_inc",
            [loc[g] EXCEPT !.todo = [id |-> nextID, title |-> loc[g].title,
                                     done |-> FALSE]])
    /\ UNCHANGED <<todos, nextID, mu, issued, removed>>
    /\ UNCHANGED notesVars

\* nextID++
CreateInc(g) ==
    /\ pc[g] = "c_inc"
    /\ nextID' = nextID + 1
    /\ Goto(g, "c_append", loc[g])
    /\ UNCHANGED <<todos, mu, issued, removed>>
    /\ UNCHANGED notesVars

\* todos = append(todos, todo)
CreateAppend(g) ==
    /\ pc[g] = "c_append"
    /\ todos' = Append(todos, loc[g].todo)
    /\ issued' = issued \cup {loc[g].todo.id}
    /\ Goto(g, "c_unlock", loc[g])
    /\ UNCHANGED <<nextID, mu, removed>>
    /\ UNCHANGED notesVars

\* mu.Unlock() of createTodoHandler, then the response: 201 with todo.
CreateUnlock(g) ==
    /\ pc[g] = "c_unlock"
    /\ Unlock(g)
    /\ Respond(g, 201, loc[g].todo, <<>>)
    /\ UNCHANGED <<todos, nextID, issued, removed>>
    /\ UNCHANGED notesVars

\* PUT /todos/{id}: updateTodoHandler up to mu.Lock().
UpdateTodo(g, paths, bodies) ==
    \E path \in paths, body \in bodies :
        /\ pc[g] = "idle"
        /\ IF ~ValidId(path) \/ ~body.json \/ TrimSpace(body.title) = <<>>
           THEN Respond(g, 400, NoTodo, <<>>)
           ELSE Goto(g, "u_lock",
                     [NoLocal EXCEPT !.id = Atoi(path), !.title = body.title,
                                     !.done = body.done])
        /\ UNCHANGED <<todos, nextID, mu, issued, removed>>
        /\ UNCHANGED notesVars

\* mu.Lock() of updateTodoHandler.
UpdateLock(g) ==
    /\ pc[g] = "u_lock"
    /\ Lock(g)
    /\ Goto(g, "u_find", loc[g])
    /\ UNCHANGED <<todos, nextID, issued, removed>>
    /\ UNCHANGED notesVars

\* for i := range todos { if todos[i].ID == id ...: the loop up to the todo
\* of that id, or to its end and http.Error(..., 404).
UpdateFind(g) ==
    /\ pc[g] = "u_find"
    /\ IF IndexOf(todos, loc[g].id) = -1
       THEN Goto(g, "u_unlock", [loc[g] EXCEPT !.status = 404])
       ELSE Goto(g, "u_title",
                 [loc[g] EXCEPT !.index = IndexOf(todos, loc[g].id)])
    /\ UNCHANGED <<todos, nextID, mu, issued, removed>>
    /\ UNCHANGED notesVars

\* todos[i].Title = body.Title.  An index past the end of the slice (which
\* no goroutine that holds mu meets) makes the handler panic; net/http
\* recovers after the deferred Unlock.
UpdateTitle(g) ==
    /\ pc[g] = "u_title"
    /\ IF loc[g].index \in 1..Len(todos)
       THEN /\ todos' = [todos EXCEPT ![loc[g].index].title = loc[g].title]
            /\ Goto(g, "u_done", loc[g])
       ELSE /\ todos' = todos
            /\ Goto(g, "u_unlock", [loc[g] EXCEPT !.status = 500])
    /\ UNCHANGED <<nextID, mu, issued, removed>>
    /\ UNCHANGED notesVars

\* todos[i].Done = body.Done, then json.NewEncoder(w).Encode(todos[i])
UpdateDone(g) ==
    /\ pc[g] = "u_done"
    /\ IF loc[g].index \in 1..Len(todos)
       THEN /\ todos' = [todos EXCEPT ![loc[g].index].done = loc[g].done]
            /\ Goto(g, "u_unlock",
                    [loc[g] EXCEPT !.status = 200,
                                   !.todo = todos'[loc[g].index]])
       ELSE /\ todos' = todos
            /\ Goto(g, "u_unlock", [loc[g] EXCEPT !.status = 500])
    /\ UNCHANGED <<nextID, mu, issued, removed>>
    /\ UNCHANGED notesVars

\* The deferred mu.Unlock() of updateTodoHandler.
UpdateUnlock(g) ==
    /\ pc[g] = "u_unlock"
    /\ Unlock(g)
    /\ Respond(g, loc[g].status, loc[g].todo, <<>>)
    /\ UNCHANGED <<todos, nextID, issued, removed>>
    /\ UNCHANGED notesVars

\* DELETE /todos/{id}: deleteTodoHandler up to mu.Lock().
DeleteTodo(g, paths) ==
    \E path \in paths :
        /\ pc[g] = "idle"
        /\ IF ~ValidId(path)
           THEN Respond(g, 400, NoTodo, <<>>)
           ELSE Goto(g, "d_lock", [NoLocal EXCEPT !.id = Atoi(path)])
        /\ UNCHANGED <<todos, nextID, mu, issued, removed>>
        /\ UNCHANGED notesVars

\* mu.Lock() of deleteTodoHandler.
DeleteLock(g) ==
    /\ pc[g] = "d_lock"
    /\ Lock(g)
    /\ Goto(g, "d_find", loc[g])
    /\ UNCHANGED <<todos, nextID, issued, removed>>
    /\ UNCHANGED notesVars

\* The search for index, and http.Error(..., 404) when it stays -1.
DeleteFind(g) ==
    /\ pc[g] = "d_find"
    /\ IF IndexOf(todos, loc[g].id) = -1
       THEN Goto(g, "d_unlock", [loc[g] EXCEPT !.status = 404])
       ELSE Goto(g, "d_copy",
                 [loc[g] EXCEPT !.index = IndexOf(todos, loc[g].id)])
    /\ UNCHANGED <<todos, nextID, mu, issued, removed>>
    /\ UNCHANGED notesVars

\* append(todos[:index], todos[index+1:]...): the copy within the array.
\* An index past the end of the slice makes the handler panic.
DeleteCopy(g) ==
    /\ pc[g] = "d_copy"
    /\ IF loc[g].index \in 1..Len(todos)
       THEN /\ todos' = CopyDown(todos, loc[g].index)
            /\ Goto(g, "d_store", loc[g])
       ELSE /\ todos' = todos
            /\ Goto(g, "d_unlock", [loc[g] EXCEPT !.status = 500])
    /\ UNCHANGED <<nextID, mu, issued, removed>>
    /\ UNCHANGED notesVars

\* todos = (the result of append, one element shorter), then
\* w.WriteHeader(http.StatusNoContent).
DeleteStore(g) ==
    /\ pc[g] = "d_store"
    /\ todos' = SubSeq(todos, 1, Len(todos) - 1)
    /\ removed' = removed \cup {loc[g].id}
    /\ Goto(g, "d_unlock", [loc[g] EXCEPT !.status = 204])
    /\ UNCHANGED <<nextID, mu, issued>>
    /\ UNCHANGED notesVars

\* The deferred mu.Unlock() of deleteTodoHandler.
DeleteUnlock(g) ==
    /\ pc[g] = "d_unlock"
    /\ Unlock(g)
    /\ Respond(g, loc[g].status, NoTodo, <<>>)
    /\ UNCHANGED <<todos, nextID, issued, removed>>
    /\ UNCHANGED notesVars

\* The goroutine is through with its request and serves the next one.
TodoReturn(g) ==
    /\ pc[g] = "done"
    /\ Goto(g, "idle", NoLocal)
    /\ UNCHANGED <<todos, nextID, mu, issued, removed>>
    /\ UNCHANGED notesVars

\* The in-memory todo service, its requests served concurrently.
NextTodo ==
    \E g \in Gos :
        \/ GetTodos(g)
        \/ GetEncode(g)
        \/ CreateTodo(g, CreateBodies)
        \/ CreateLock(g)
        \/ CreateNew(g)
        \/ CreateInc(g)
        \/ CreateAppend(g)
        \/ CreateUnlock(g)
        \/ UpdateTodo(g, TodoPaths, UpdateBodies)
        \/ UpdateLock(g)
        \/ UpdateFind(g)
        \/ UpdateTitle(g)
        \/ UpdateDone(g)
        \/ UpdateUnlock(g)
        \/ DeleteTodo(g, TodoPaths)
        \/ DeleteLock(g)
        \/ DeleteFind(g)
        \/ DeleteCopy(g)
        \/ DeleteStore(g)
        \/ DeleteUnlock(g)
        \/ TodoReturn(g)

SpecTodo == Init /\ [][NextTodo]_vars

\* ============================================================ claims

\* A title that is empty or consists only of whitespace.
Blank(t) == \A i \in 1..Len(t) : t[i] \in WhiteSpace

\* The request just served passed the auth gate.
Authenticated == gate.invoked = 1

\* A note id no INSERT of the run ever generates.
MissingId == Itoa(MaxNoteId + 1)

\* The step serves an update or a delete that passed the gate and whose path
\* names the id of stored note n, which the caller does not own.
NamesNoteOfOther(n) ==
    /\ req'.op \in {"update", "delete"}
    /\ Authenticated'
    /\ AtoiOk(req'.path)
    /\ Atoi(req'.path) = n.id
    /\ n.user_id # gate'.userID

\* The response the same request gets, in the state it arrives in, when its
\* path names an id that does not exist.
AnswerForMissingId ==
    IF req'.op = "update"
    THEN updateNoteHandler(gate'.userID, MissingId, req'.body).resp
    ELSE deleteNoteHandler(gate'.userID, MissingId).resp

\* A list that passed the gate returns only notes owned by the caller.
ListOnlyOwn ==
    (req.op = "list" /\ Authenticated)
        => \A i \in 1..Len(resp.list) : resp.list[i].user_id = gate.userID

\* C1 as stated: a list carrying A's identity never returns a note owned by
\* B, and every update or delete carrying A's identity that names the id of
\* a note owned by B answers 404 and leaves that note unchanged.
C1_Original ==
    [][/\ ListOnlyOwn'
       /\ \A n \in notes :
              (NamesNoteOfOther(n) /\ gate'.userID \in UserIds)
                  => (resp'.status = 404 /\ n \in notes')]_vars

\* C1 amended: a list carrying A's identity never returns a note owned by B;
\* an update or delete carrying A's identity that names the id of a note
\* owned by B leaves that note unchanged and gets the very response it gets
\* for an id that does not exist, which is 404 for a delete and for an update
\* whose body decodes with a non-blank title, and 400 for an update whose
\* body does not decode or whose title is blank.
C1_Isolation ==
    [][/\ ListOnlyOwn'
       /\ \A n \in notes :
              NamesNoteOfOther(n) =>
                  /\ n \in notes'
                  /\ resp' = AnswerForMissingId
                  /\ resp'.status =
                         IF req'.op = "update"
                            /\ (~req'.body.json \/ Blank(req'.body.title))
                         THEN 400 ELSE 404]_vars

\* A registered user's update with a good body named another user's note,
\* got 404, and the note is still stored.
C1_Witness ==
    /\ req.op = "update"
    /\ Authenticated
    /\ gate.userID \in UserIds
    /\ req.body.json /\ ~Blank(req.body.title)
    /\ resp.status = 404
    /\ \E n \in notes : n.id = Atoi(req.path) /\ n.user_id # gate.userID

\* The requests that go through the auth gate.
ProtectedOps == {"list", "create", "update", "delete"}

\* Decimal text: an optional sign and digits.
IsDecimal(s) ==
    \E k \in 0..1 :
        /\ Len(s) > k
        /\ k = 1 => s[1] \in {"+", "-"}
        /\ \A i \in (k + 1)..Len(s) : s[i] \in DigitSet

\* The integer that decimal text without a sign denotes.
RECURSIVE DecimalValue(_)
DecimalValue(s) ==
    IF Len(s) = 0 THEN 0
    ELSE LET d == CHOOSE v \in 0..9 : Itoa(v) = <<s[Len(s)]>>
         IN  10 * DecimalValue(SubSeq(s, 1, Len(s) - 1)) + d

SignedValue(s) ==
    IF s[1] = "-" THEN 0 - DecimalValue(Tail(s))
    ELSE IF s[1] = "+" THEN DecimalValue(Tail(s))
    ELSE DecimalValue(s)

\* C2: on a protected route, a request whose session_token cookie is absent
\* or does not parse as a decimal integer is answered 401, the wrapped
\* handler is not invoked and the notes are unchanged; every other request
\* has the handler invoked once with the cookie's integer value as user id.
C2_AuthGate ==
    [][req'.op \in ProtectedOps =>
          IF ~req'.cookie.present \/ ~IsDecimal(req'.cookie.value)
          THEN /\ resp'.status = 401
               /\ gate'.invoked = 0
               /\ notes' = notes
          ELSE /\ gate'.invoked = 1
               /\ gate'.userID = SignedValue(req'.cookie.value)]_vars

\* A create with an unparseable cookie was turned away while notes are
\* stored.
C2_Witness ==
    /\ req.op = "create"
    /\ req.cookie.present /\ ~IsDecimal(req.cookie.value)
    /\ req.body.json /\ ~Blank(req.body.title)
    /\ resp.status = 401
    /\ notes # {}

\* The request being answered is a POST /login whose body decodes.
LoginAttempt == req.op = "login" /\ req.method = "POST" /\ req.creds.json

\* The registered users a login attempt's credentials are right for.
RightFor(creds, registered) ==
    {u \in registered : u.username = creds.username
                        /\ u.password.of = creds.password}

\* C3: a login with a registered username and its registered password
\* answers 200 and sets a session_token cookie whose value is that user's id
\* in decimal, which the auth gate resolves to exactly that user; a login
\* with an unknown username and one with a registered username and a wrong
\* password get one and the same response: 401, the same body, no cookie.
C3_Login ==
    [][LoginAttempt' =>
          IF RightFor(req'.creds, users) # {}
          THEN \A u \in RightFor(req'.creds, users) :
                   /\ resp'.status = 200
                   /\ resp'.cookie.set
                   /\ IsDecimal(resp'.cookie.value)
                   /\ SignedValue(resp'.cookie.value) = u.id
                   /\ authMiddleware(Cookie(resp'.cookie.value)).pass
                   /\ authMiddleware(Cookie(resp'.cookie.value)).userID = u.id
          ELSE /\ resp'.status = 401
               /\ resp'.text = "invalid credentials"
               /\ resp'.json = "none"
               /\ ~resp'.cookie.set]_vars

\* The second registered user logged in and got the cookie "2", after a
\* state in which the first one is registered with another password.
C3_Witness ==
    /\ LoginAttempt
    /\ resp.status = 200
    /\ resp.cookie.value = <<"2">>
    /\ \E u, v \in users : u.id = 1 /\ v.id = 2 /\ u.password # v.password

\* C4: every stored note has exactly one owner, who is a registered user and
\* never changes: no two stored notes share an id, a create whose session
\* identity matches no registered user stores no note, and no step changes
\* the owner of a note that stays stored.
C4_Owner ==
    [][/\ \A n \in notes' : n.user_id \in UserIds'
       /\ \A n, m \in notes' : n.id = m.id => n = m
       /\ \A n \in notes, m \in notes' : n.id = m.id => n.user_id = m.user_id
       /\ (req'.op = "create" /\ Authenticated' /\ gate'.userID \notin UserIds)
              => notes' = notes]_vars

\* A create with a good body under an identity that is not registered was
\* refused while another user's note is stored.
C4_Witness ==
    /\ req.op = "create"
    /\ Authenticated
    /\ gate.userID \notin UserIds
    /\ req.body.json /\ ~Blank(req.body.title)
    /\ resp.status = 500
    /\ notes # {}

\* C5 as stated: a register with an empty username, or with a username that
\* is already registered, adds no user row and does not answer 201, so the
\* stored usernames are non-empty and pairwise distinct.
C5_Original ==
    [][/\ (/\ req'.op = "register"
           /\ \/ req'.creds.username = ""
              \/ \E u \in users : u.username = req'.creds.username)
              => (users' = users /\ resp'.status # 201)
       /\ \A u \in users' : u.username # ""
       /\ \A u, v \in users' : u.username = v.username => u = v]_vars

\* t is s without its leading and trailing whitespace.
IsTrimOf(t, s) ==
    \E i, j \in 0..Len(s) :
        /\ i + j <= Len(s)
        /\ t = SubSeq(s, i + 1, Len(s) - j)
        /\ \A k \in 1..i : s[k] \in WhiteSpace
        /\ \A k \in (Len(s) - j + 1)..Len(s) : s[k] \in WhiteSpace
        /\ t # <<>> => (t[1] \notin WhiteSpace /\ t[Len(t)] \notin WhiteSpace)

\* The path is decimal text for a positive integer.
PositiveId(path) == IsDecimal(path) /\ SignedValue(path) > 0

\* The request just served is an update that passed the gate, with a
\* positive numeric id and a body that decodes with a non-blank title.
GoodUpdate ==
    /\ req.op = "update"
    /\ Authenticated
    /\ PositiveId(req.path)
    /\ req.body.json /\ ~Blank(req.body.title)

\* The notes stored before the step that the update of the step names and
\* its caller owns.
OwnedTarget ==
    {n \in notes : n.id = SignedValue(req'.path) /\ n.user_id = gate'.userID}

\* C6 as stated (the stored title read as the request's title trimmed): a
\* good update answers 404 exactly when the caller owns no note with that id;
\* when the caller owns one it answers 200 with the note, the stored title
\* and content become those of the request, also when they equal the stored
\* ones, and every other note is unchanged.
C6_Original ==
    [][GoodUpdate' =>
          IF OwnedTarget = {}
          THEN resp'.status = 404 /\ notes' = notes
          ELSE /\ resp'.status = 200
               /\ resp'.json = "object"
               /\ \A n \in OwnedTarget :
                      /\ resp'.note.id = n.id
                      /\ resp'.note.user_id = n.user_id
                      /\ IsTrimOf(resp'.note.title, req'.body.title)
                      /\ resp'.note.content = req'.body.content
                      /\ resp'.note \in notes'
               /\ notes' \ {resp'.note} = notes \ OwnedTarget]_vars

\* C7 as stated: a list by a registered user that passed the gate returns
\* exactly the notes the caller owns, in strictly descending id order, and
\* its body is a sequence, never null, also when the caller owns no note.
C7_Original ==
    (req.op = "list" /\ Authenticated /\ gate.userID \in UserIds) =>
        /\ resp.status = 200
        /\ resp.json = "array"
        /\ {resp.list[i] : i \in 1..Len(resp.list)}
               = {n \in notes : n.user_id = gate.userID}
        /\ \A i, j \in 1..Len(resp.list) :
               i < j => resp.list[i].id > resp.list[j].id

\* The request just served is a create that passed the gate, with a body
\* that decodes with a non-blank title.
GoodCreate ==
    /\ req.op = "create"
    /\ Authenticated
    /\ req.body.json /\ ~Blank(req.body.title)

\* What a list by the caller of the request just served returns now.
ListOfCaller == getNotesHandler(gate.userID).resp.list

\* What the step's create returns, but for its title: 201 with a note of a
\* positive id that no other stored note has, the request's content and the
\* caller as owner, which the caller's list then holds.
Created ==
    /\ resp'.status = 201
    /\ resp'.json = "object"
    /\ resp'.note.id > 0
    /\ resp'.note.id \notin {n.id : n \in notes}
    /\ \A n \in notes' : n.id = resp'.note.id => n = resp'.note
    /\ resp'.note.content = req'.body.content
    /\ resp'.note.user_id = gate'.userID
    /\ \E i \in 1..Len(ListOfCaller') : ListOfCaller'[i] = resp'.note

\* C8 as stated (the creating user read as a registered one): every
\* authenticated create with a non-blank title returns such a note, with the
\* request's title.
C8_Original ==
    [][(GoodCreate' /\ gate'.userID \in UserIds) =>
          (Created /\ resp'.note.title = req'.body.title)]_vars

\* C8 amended: every authenticated create whose session identity is a
\* registered user, with a non-blank title and any content, answers 201 with
\* a note that has a generated positive id different from the id of every
\* other stored note, the request's title without its leading and trailing
\* whitespace, the request's content and the creating user as owner; the
\* same note then appears in that user's list.
C8_Create ==
    [][(GoodCreate' /\ gate'.userID \in UserIds) =>
          (Created /\ IsTrimOf(resp'.note.title, req'.body.title))]_vars

\* A registered user created a second note, with a title sent with
\* whitespace around it.
C8_Witness ==
    /\ GoodCreate
    /\ gate.userID \in UserIds
    /\ req.body.title = <<" ", "b", " ">>
    /\ resp.status = 201
    /\ Cardinality(notes) = 2

\* C9: an update or delete that passed the gate and whose path id is not
\* numeric or not a positive integer answers 400 and runs no storage
\* statement, so the stored notes are unchanged.
C9_InvalidId ==
    [][(/\ req'.op \in {"update", "delete"}
        /\ Authenticated'
        /\ ~PositiveId(req'.path)) =>
          /\ resp'.status = 400
          /\ stmts' = 0
          /\ notes' = notes
          /\ notesAutoInc' = notesAutoInc]_vars

\* A delete of id 0 by the owner of a stored note was answered 400.
C9_Witness ==
    /\ req.op = "delete"
    /\ Authenticated
    /\ req.path = <<"0">>
    /\ resp.status = 400
    /\ \E n \in notes : n.user_id = gate.userID

\* C10: a create or update that passed the gate and whose title is empty or
\* only whitespace answers 400 and leaves the stored notes unchanged.
C10_BlankTitle ==
    [][(/\ req'.op \in {"create", "update"}
        /\ Authenticated'
        /\ req'.body.json
        /\ Blank(req'.body.title)) =>
          /\ resp'.status = 400
          /\ notes' = notes
          /\ notesAutoInc' = notesAutoInc]_vars

\* An update of the caller's own note with a title of one space was answered
\* 400.
C10_Witness ==
    /\ req.op = "update"
    /\ Authenticated
    /\ req.body.json
    /\ req.body.title = <<" ">>
    /\ resp.status = 400
    /\ \E n \in notes : n.user_id = gate.userID /\ Itoa(n.id) = req.path

\* C11: once a note id has been deleted, every later delete of that id that
\* passes the gate (by the user who deleted it as by any other) answers 404
\* and leaves the stored notes and the id counter as they were, no later
\* create answers with that id, and no stored note ever carries it again.
C11_DeleteIdempotent ==
    [][/\ (/\ req'.op = "delete"
            /\ Authenticated'
            /\ PositiveId(req'.path)
            /\ SignedValue(req'.path) \in deleted) =>
              /\ resp'.status = 404
              /\ notes' = notes
              /\ notesAutoInc' = notesAutoInc
       /\ (req'.op = "create" /\ resp'.status = 201) =>
              resp'.note.id \notin deleted
       /\ \A n \in notes' : n.id \notin deleted']_vars

\* A note was deleted, and a later delete of its id, by a user who owns a
\* note created since, was answered 404.
C11_Witness ==
    /\ req.op = "delete"
    /\ Authenticated
    /\ PositiveId(req.path)
    /\ SignedValue(req.path) \in deleted
    /\ resp.status = 404
    /\ \E n \in notes :
           n.user_id = gate.userID /\ n.id > SignedValue(req.path)

\* C12: logout answers 200 whatever the method, with a session_token cookie
\* of empty value that has already expired, and changes neither table; a
\* client that has applied that cookie and sends what its jar then holds is
\* answered 401 by /check-auth and by every protected route, which leave the
\* tables alone, and nothing but a login answered 200 ends that.
C12_Logout ==
    [][/\ req'.op = "logout" =>
              /\ resp'.status = 200
              /\ resp'.cookie.set
              /\ resp'.cookie.value = <<>>
              /\ resp'.cookie.hours < 0
              /\ UNCHANGED <<users, usersAutoInc, notes, notesAutoInc>>
              /\ jar'.by = "logout"
       /\ (/\ jar.by = "logout"
            /\ req'.op \in ProtectedOps \cup {"check-auth"}
            /\ req'.cookie = jar.cookie) =>
              /\ resp'.status = 401
              /\ ~Authenticated'
              /\ UNCHANGED <<users, usersAutoInc, notes, notesAutoInc>>
       /\ (jar.by = "logout" /\ jar'.by # "logout") =>
              (req'.op = "login" /\ resp'.status = 200)]_vars

\* A client that had created a note logged out, kept the emptied cookie, and
\* its request for its list was answered 401.
C12_Witness ==
    /\ req.op = "list"
    /\ jar = [cookie |-> Cookie(<<>>), by |-> "logout"]
    /\ req.cookie = jar.cookie
    /\ resp.status = 401
    /\ notes # {}

\* C13: register answers 409 only when the username is already registered;
\* when the storage fails its INSERT for another reason the answer is 500;
\* and a register answered 409 or 500 adds no user row.  Stated for the
\* non-empty usernames.
C13_Original ==
    [][(req'.op = "register" /\ req'.creds.username # "") =>
          /\ resp'.status = 409 =>
                 \E u \in users : u.username = req'.creds.username
          /\ (/\ fault'
               /\ \A u \in users : u.username # req'.creds.username) =>
                 resp'.status = 500
          /\ resp'.status \in {409, 500} => users' = users]_vars

\* Goroutine g is inside the critical section of its handler: between its
\* mu.Lock() and its mu.Unlock().
InCriticalSection(g) ==
    pc[g] \in {"c_new", "c_inc", "c_append", "c_unlock",
               "u_find", "u_title", "u_done", "u_unlock",
               "d_find", "d_copy", "d_store", "d_unlock"}

\* No request is inside a critical section.
Quiescent == \A g \in Gos : ~InCriticalSection(g)

\* C14: at most one create, update or delete is inside its critical section
\* at a time; whenever none is, the stored todos are exactly the appended
\* ones that were not deleted (no append is lost), their ids are strictly
\* increasing in slice order and below nextID; and every append adds one
\* todo, with an id that was never appended before, deleted or not.
C14_Atomic ==
    /\ [](\A g, h \in Gos :
             (InCriticalSection(g) /\ InCriticalSection(h)) => g = h)
    /\ [](Quiescent =>
             /\ \A i, j \in 1..Len(todos) : i < j => todos[i].id < todos[j].id
             /\ {todos[i].id : i \in 1..Len(todos)} = issued \ removed
             /\ \A i \in 1..Len(todos) : todos[i].id < nextID)
    /\ [][\A g \in Gos :
             (pc[g] = "c_append" /\ pc'[g] # "c_append") =>
                /\ loc[g].todo.id \notin issued \cup removed
                /\ Len(todos') = Len(todos) + 1
                /\ todos'[Len(todos')].id = loc[g].todo.id]_vars

\* A todo was created and deleted, and a create is about to append the todo
\* of a fresh id while the create of another request waits for mu.
C14_Witness ==
    \E g, h \in Gos :
        /\ pc[g] = "c_append"
        /\ mu = g
        /\ pc[h] = "c_lock"
        /\ removed # {}
        /\ loc[g].todo.id \notin removed

\* The step of goroutine g reads or writes todos or nextID.
Accesses(g) ==
    /\ pc[g] \in {"g_read", "c_new", "c_inc", "c_append", "u_find", "u_title",
                  "u_done", "d_find", "d_copy", "d_store"}
    /\ pc'[g] # pc[g]

\* Goroutine g has begun to modify todos and has not finished.
Modifying(g) == pc[g] \in {"u_done", "d_store"}

\* C15: every step that reads or writes todos or nextID, the read of
\* GET /todos included, is taken by a request that holds mu, and none is
\* taken while another request is in the middle of modifying todos.
C15_Original ==
    [][\A g \in Gos :
          Accesses(g) =>
             /\ mu = g
             /\ \A h \in Gos \ {g} : ~Modifying(h)]_vars

====
